---------------------------- MODULE Spec2Model ----------------------------
(***************************************************************************)
(* A model of riven's matching and resolution pipeline:                    *)
(*   - TorBoxDownloader.run and find_required_files                        *)
(*       (src/src/program/services/downloaders/torbox.py),                 *)
(*   - Scraper.scrape / _scrape_show / _scrape_items / api_scrape and the  *)
(*     eligibility gate Scraper._can_we_scrape                             *)
(*       (src/backend/program/scrapers/torrentio.py),                     *)
(*   - the Candidate Ranker _parse_results and its helpers                 *)
(*       (src/src/program/scrapers/shared.py).                             *)
(* Five specifications share the module: SpecRun (the availability         *)
(* resolver), SpecGate (the eligibility gate as a pure predicate),         *)
(* SpecScrape (scrape passes under the rate limiter), SpecMatch (the File  *)
(* Matcher as a function) and SpecRank (the Candidate Ranker as a          *)
(* function).                                                              *)
(***************************************************************************)
EXTENDS Integers, Sequences, FiniteSets, TLC

VARIABLES
    \* ---- availability resolver (torbox.py) ----
    initialized,      \* TorBoxDownloader.initialized
    streams,          \* the item's Stream rows, in stored (rank) order
    available,        \* ids of the infohashes the provider holds cached
    listing,          \* the provider's file listing of each cached infohash
    rpc,              \* position of run: "idle" or "loop"
    bi,               \* the loop variable i of run (start of the next batch)
    processed_hashes, \* run's local set
    stream_hashes,    \* run's local dict, as an insertion-ordered sequence
    runResult,        \* how the last run ended: none / true / false / raised
    added,            \* infohashes handed to add_torrent that returned an id
    runs,             \* number of runs started
    queries,          \* the availability queries of the current run, in order
    blAtStart,        \* stream positions blacklisted when the current run began
    blBefore,         \* stream positions blacklisted before the last batch
    lastOk,           \* response.is_ok of the last query
    lastCached,       \* what get_instant_availability returned for the last query
    lastMatch,        \* the File Matcher's outcome per examined entry, last batch
    \* ---- eligibility gate (torrentio.py) ----
    gateItem,         \* the item handed to _can_we_scrape
    gateNow,          \* datetime.now() at that call
    gateResult,       \* "none" before the call, then "true" / "false"
    \* ---- scrape passes (torrentio.py) ----
    items,            \* the media items: type, state, aired_at, scraped_at, streams
    clock,            \* the clock (datetime.now), in seconds
    ticks,            \* how often the clock has been advanced (once per pass)
    tokens,           \* minute_limiter: calls left in the current period
    last_call,        \* minute_limiter: time of the last call let through
    spc,              \* position of scrape: "idle" or "scraping"
    cont,             \* what is left of the pass: the calls queued, then the items
    passNo,           \* number of passes started
    raisedPass,       \* the pass in which a scrape call last raised (0: none)
    lastCall,         \* the last api_scrape call: item, outcome, pass
    deferred,         \* what the last raise left unprocessed
    \* ---- the File Matcher on its own (torbox.py) ----
    matchItem,        \* the item handed to find_required_files
    matchFiles,       \* the container: the provider's file listing
    matchResult,      \* whether it was called, whether it raised, what it returned
    \* ---- the Candidate Ranker on its own (shared.py) ----
    rankItem,         \* the media item of the profile handed to _parse_results
    rankResults,      \* the raw results: infohash and raw title, in dict order
    rankOut           \* whether it was called, whether it raised, what it left

resolverVars == <<initialized, streams, available, listing, rpc, bi,
                  processed_hashes, stream_hashes, runResult, added, runs,
                  queries, blAtStart, blBefore, lastOk, lastCached, lastMatch>>
gateVars == <<gateItem, gateNow, gateResult>>
scrapeVars == <<items, clock, ticks, tokens, last_call, spc, cont, passNo,
                raisedPass, lastCall, deferred>>
matchVars == <<matchItem, matchFiles, matchResult>>
rankVars == <<rankItem, rankResults, rankOut>>
vars == <<resolverVars, gateVars, scrapeVars, matchVars, rankVars>>
\* what each component leaves alone
notResolver == <<gateVars, scrapeVars, matchVars, rankVars>>
notGate == <<resolverVars, scrapeVars, matchVars, rankVars>>
notScrape == <<resolverVars, gateVars, matchVars, rankVars>>
notMatch == <<resolverVars, gateVars, scrapeVars, rankVars>>
notRank == <<resolverVars, gateVars, scrapeVars, matchVars>>

(***************************************************************************)
(* Bounds of the model and constants of the program.                       *)
(***************************************************************************)
MaxStreams == 12
MaxCached == 2
MaxRuns == 2
batch_size == 5
MinFileSize == 10000

WANTED_FORMATS == {".mkv", ".mp4", ".avi"}

Min(a, b) == IF a < b THEN a ELSE b

(***************************************************************************)
(* Infohashes.  An infohash is a string; only its identity and its letter  *)
(* case matter here, so it is an id with a flag telling whether it is      *)
(* written in upper case.  str.lower() clears the flag.                    *)
(***************************************************************************)
Hash(n, up) == [id |-> n, upper |-> up]

lower(h) == [h EXCEPT !.upper = FALSE]

(***************************************************************************)
(* Files of a provider listing: size, extension of the name, and what      *)
(* RTN.parse makes of the name.                                            *)
(***************************************************************************)
MovieFile == [size |-> 20000, ext |-> ".mkv", type |-> "movie"]
SampleFile == [size |-> 5000, ext |-> ".mkv", type |-> "movie"]
TextFile == [size |-> 20000, ext |-> ".nfo", type |-> "movie"]

Listings == { <<TextFile, MovieFile>>, <<SampleFile, TextFile>> }

ResolvedItem == [type |-> "movie"]

None == "None"

(***************************************************************************)
(* TorBoxDownloader.get_instant_availability.  `data` is response.data.data *)
(* of the provider: the cached entries among the queried infohashes, in    *)
(* the provider's own order (the values of the returned dict).             *)
(***************************************************************************)
get_instant_availability_any_response(hashes, is_ok, data) == data

get_instant_availability(hashes, is_ok, data) ==
    IF ~is_ok THEN <<>> ELSE data

\* The provider: what response.data.data can be for a query.
Perms(S) ==
    { f \in [1..Cardinality(S) -> S] :
        \A a, b \in 1..Cardinality(S) : f[a] = f[b] => a = b }

ProviderData(hashes, avail, lst) ==
    Perms({ [hash |-> h, files |-> lst[h.id]] : h \in { x \in hashes : x.id \in avail } })

(***************************************************************************)
(* TorBoxDownloader.add_torrent: the torrent id, or None when the provider *)
(* answers with an error.                                                  *)
(***************************************************************************)
add_torrent(infohash, is_ok) ==
    IF ~is_ok THEN None ELSE "torrent_id"

(***************************************************************************)
(* Items as the File Matcher reads them.  States is program.media.state;   *)
(* a show holds its seasons, a season its episodes and its parent show, an *)
(* episode its parent season.                                              *)
(***************************************************************************)
States == {"Unknown", "Indexed", "Scraped", "Downloaded", "PartiallyCompleted",
           "Completed", "Failed"}

acceptable_states == {"Indexed", "Scraped", "Unknown", "Failed"}

\* the elements of a list, and a list repeated n times
Range(q) == { q[k] : k \in 1..Len(q) }

RECURSIVE Times(_, _)
Times(q, n) == IF n <= 0 THEN <<>> ELSE q \o Times(q, n - 1)

\* RTN.parse of a file name: the ParsedData, with the fields type, seasons
\* and episodes (lists of numbers)
parse(file) == [type |-> file.type, seasons |-> file.seasons, episodes |-> file.episodes]

Returned(v) == [raised |-> FALSE, value |-> v]
Raised == [raised |-> TRUE, value |-> <<>>]

\* lines 145-148, and the fall through to line 225
match_movie(files, parsed_file) ==
    IF files # <<>> /\ parsed_file.type = "movie" THEN Returned(<<files[1]>>)
    ELSE Returned(<<>>)

\* lines 149-186.  needed_episodes maps the number of each season that is in
\* an acceptable state and released to the numbers of its episodes that are,
\* when there are any.  Line 177 reads parsed_file.season, which ParsedData
\* does not have (its fields are seasons and episodes, lines 173 and 208):
\* the first file that is not skipped at line 173 raises AttributeError.
match_show(item, files, parsed_file) ==
    LET needed_episode_numbers(season) ==
            { e.number : e \in { x \in Range(season.episodes) :
                                    x.state \in acceptable_states /\ x.is_released } }
        needed_episodes ==
            { season.number : season \in { x \in Range(item.seasons) :
                /\ x.state \in acceptable_states /\ x.is_released
                /\ needed_episode_numbers(x) # {} } }
    IN  IF needed_episodes = {} THEN Returned(<<>>)
        ELSE IF files # <<>> /\ parsed_file.seasons # <<>> /\ parsed_file.seasons # <<0>>
        THEN Raised
        ELSE Returned(<<>>)

\* lines 187-215, and the fall through to line 225.  Every file is judged by
\* the one parsed_file; a file is appended once for each of its episodes
\* that is needed; the selection is returned when it has as many entries as
\* there are needed episodes.
match_season(item, files, parsed_file) ==
    LET needed_episodes == { e.number : e \in { x \in Range(item.episodes) :
                                                  x.state \in acceptable_states } }
        one_season == Len(item.parent.seasons) = 1
        season_num == item.number
        skipped == parsed_file.seasons = <<>> \/ parsed_file.seasons = <<0>>
        hits == Len(SelectSeq(parsed_file.episodes, LAMBDA n : n \in needed_episodes))
        taken == ~skipped /\ (season_num \in Range(parsed_file.seasons) \/ one_season)
        RECURSIVE Matched(_)
        Matched(k) ==
            IF k > Len(files) THEN <<>>
            ELSE (IF taken THEN Times(<<files[k]>>, hits) ELSE <<>>) \o Matched(k + 1)
        matched_files == Matched(1)
    IN  IF matched_files = <<>> THEN Returned(<<>>)
        ELSE IF Cardinality(needed_episodes) = Len(matched_files)
        THEN Returned(matched_files)
        ELSE Returned(<<>>)

\* lines 216-225
match_episode(item, files, parsed_file) ==
    IF /\ files # <<>>
       /\ item.number \in Range(parsed_file.episodes)
       /\ item.parent.number \in Range(parsed_file.seasons)
    THEN Returned(<<files[1]>>)
    ELSE Returned(<<>>)

(***************************************************************************)
(* TorBoxDownloader.find_required_files.  Line 144 reads the local `file`  *)
(* before any of the function's for-loops has bound it: the variable of    *)
(* the list comprehension of lines 137-143 is local to the comprehension.  *)
(* Python raises UnboundLocalError there, on every call, whatever the      *)
(* item and the container are; nothing after line 144 is ever executed.    *)
(* The result is a record: raised, or the returned list.                   *)
(***************************************************************************)
Unbound == "Unbound"

find_required_files(item, container) ==
    LET files == SelectSeq(container,
                     LAMBDA f : f.size > MinFileSize /\ f.ext \in WANTED_FORMATS)
        file == Unbound
    IN  IF file = Unbound
        THEN Raised
        ELSE LET parsed_file == parse(file)
             IN  CASE item.type = "movie" -> match_movie(files, parsed_file)
                   [] item.type = "show" -> match_show(item, files, parsed_file)
                   [] item.type = "season" -> match_season(item, files, parsed_file)
                   [] item.type = "episode" -> match_episode(item, files, parsed_file)
                   [] OTHER -> Returned(<<>>)

(***************************************************************************)
(* run, lines 114-119: one batch is merged into processed_hashes and       *)
(* stream_hashes.  stream_hashes is never emptied between batches.         *)
(***************************************************************************)
RECURSIVE Accumulate(_, _, _, _, _)
Accumulate(strs, j, hi, ph, sh) ==
    IF j > hi THEN [processed_hashes |-> ph, stream_hashes |-> sh]
    ELSE LET hash_lower == lower(strs[j].infohash)
         IN  IF hash_lower \in ph
             THEN Accumulate(strs, j + 1, hi, ph, sh)
             ELSE Accumulate(strs, j + 1, hi, ph \cup {hash_lower},
                             Append(sh, [hash |-> hash_lower, stream |-> j]))

\* list(stream_hashes.keys()) and stream_hashes.values()
Keys(sh) == { sh[k].hash : k \in 1..Len(sh) }
Values(sh) == { sh[k].stream : k \in 1..Len(sh) }

\* stream_hashes.get(h): the stream's position, 0 for None
DictGet(sh, h) ==
    IF \E k \in 1..Len(sh) : sh[k].hash = h
    THEN (CHOOSE k \in 1..Len(sh) : sh[k].hash = h)
    ELSE 0

StreamOf(sh, h) == IF DictGet(sh, h) = 0 THEN 0 ELSE sh[DictGet(sh, h)].stream

\* stream.blacklisted = True, for every stream of `which`
BlacklistAll_toggle(strs, which) ==
    [j \in 1..Len(strs) |->
        IF j \in which THEN [strs[j] EXCEPT !.blacklisted = ~@] ELSE strs[j]]

BlacklistAll(strs, which) ==
    [j \in 1..Len(strs) |->
        IF j \in which THEN [strs[j] EXCEPT !.blacklisted = TRUE] ELSE strs[j]]

(***************************************************************************)
(* run, lines 122-130: the cached entries in the provider's order.         *)
(* outcome: "true" (return True), "raised" (an exception leaves run),      *)
(* "next" (the for-loop over the batches goes on).                         *)
(***************************************************************************)
RECURSIVE ExamineCached(_, _, _, _, _, _)
ExamineCached(item, cached, k, strs, sh, addOk) ==
    IF k > Len(cached)
    THEN [outcome |-> "next", strs |-> strs, added |-> {}, matches |-> <<>>]
    ELSE LET cache == cached[k]
             found == find_required_files(item, cache.files)
         IN  IF found.raised
             THEN [outcome |-> "raised", strs |-> strs, added |-> {},
                   matches |-> <<"raised">>]
             ELSE IF found.value # <<>> /\ add_torrent(cache.hash, addOk[k]) # None
             THEN [outcome |-> "true", strs |-> strs, added |-> {cache.hash},
                   matches |-> <<"files">>]
             ELSE LET j == StreamOf(sh, lower(cache.hash))
                      rest == ExamineCached(item, cached, k + 1,
                                  IF j # 0 THEN BlacklistAll(strs, {j}) ELSE strs,
                                  sh, addOk)
                  IN  [rest EXCEPT !.matches =
                          <<IF found.value # <<>> THEN "files" ELSE "empty">> \o @]

\* run, lines 120-134: the query's answer handled
HandleCached(item, cached, strs, sh, addOk) ==
    IF cached # <<>>
    THEN ExamineCached(item, cached, 1, strs, sh, addOk)
    ELSE [outcome |-> "next", strs |-> BlacklistAll(strs, Values(sh)),
          added |-> {}, matches |-> <<>>]

Blacklisted(strs) == { j \in 1..Len(strs) : strs[j].blacklisted }

(***************************************************************************)
(* run, lines 103-111: a run starts.                                       *)
(***************************************************************************)
RunStart ==
    /\ rpc = "idle"
    /\ runs < MaxRuns
    /\ runs' = runs + 1
    /\ processed_hashes' = {}
    /\ stream_hashes' = <<>>
    /\ bi' = 0
    /\ queries' = <<>>
    /\ blAtStart' = Blacklisted(streams)
    /\ blBefore' = Blacklisted(streams)
    /\ lastOk' = TRUE
    /\ lastCached' = <<>>
    /\ lastMatch' = <<>>
    /\ rpc' = IF initialized THEN "loop" ELSE "idle"
    /\ runResult' = IF initialized THEN "none" ELSE "false"
    /\ UNCHANGED <<initialized, streams, available, listing, added>>
    /\ UNCHANGED notResolver

(***************************************************************************)
(* run, lines 112-134: one iteration of the loop over the batches.         *)
(***************************************************************************)
RunBatch ==
    /\ rpc = "loop"
    /\ bi < Len(streams)
    /\ LET acc == Accumulate(streams, bi + 1, Min(bi + batch_size, Len(streams)),
                             processed_hashes, stream_hashes)
           hashes == Keys(acc.stream_hashes)
       IN  \E is_ok \in BOOLEAN,
              data \in ProviderData(hashes, available, listing),
              addOk \in [1..MaxCached -> BOOLEAN] :
             LET cached == get_instant_availability(hashes, is_ok, data)
                 res == HandleCached(ResolvedItem, cached, streams,
                                     acc.stream_hashes, addOk)
             IN  /\ processed_hashes' = acc.processed_hashes
                 /\ stream_hashes' = acc.stream_hashes
                 /\ queries' = Append(queries, hashes)
                 /\ blBefore' = Blacklisted(streams)
                 /\ lastOk' = is_ok
                 /\ lastCached' = cached
                 /\ lastMatch' = res.matches
                 /\ streams' = res.strs
                 /\ added' = added \cup res.added
                 /\ bi' = bi + batch_size
                 /\ rpc' = IF res.outcome = "next" THEN "loop" ELSE "idle"
                 /\ runResult' = IF res.outcome = "next" THEN runResult
                                 ELSE res.outcome
    /\ UNCHANGED <<initialized, available, listing, runs, blAtStart>>
    /\ UNCHANGED notResolver

\* run, line 135: the batches are exhausted
RunEnd ==
    /\ rpc = "loop"
    /\ bi >= Len(streams)
    /\ rpc' = "idle"
    /\ runResult' = "false"
    /\ UNCHANGED <<initialized, streams, available, listing, bi, processed_hashes,
                   stream_hashes, added, runs, queries, blAtStart, blBefore,
                   lastOk, lastCached, lastMatch>>
    /\ UNCHANGED notResolver

(***************************************************************************)
(* The item's stored streams and the provider's cache when the resolver    *)
(* is first called.  hashStyle: all infohashes distinct and lower case;    *)
(* all distinct and upper case; or the last stream repeating the first     *)
(* one's infohash in upper case.                                           *)
(***************************************************************************)
HashStyles == {"lower", "upper", "repeat"}

\* How many streams the item has stored: none, one, a full batch, one more,
\* two full batches, and the most the model looks at.
StreamCounts == {0, 1, batch_size, batch_size + 1, 2 * batch_size, MaxStreams}

InitialStreams(n, style) ==
    [j \in 1..n |->
        [infohash |-> IF style = "repeat" /\ j = n /\ n >= 2 THEN Hash(1, TRUE)
                      ELSE Hash(j, style = "upper"),
         blacklisted |-> FALSE]]

\* The streams the provider may hold cached: the first two of the first batch,
\* the first of the second batch and the last one, at most MaxCached of them.
Cacheable(n) == {1, 2, batch_size + 1, n} \cap 1..n

ResolverInit ==
    /\ initialized \in BOOLEAN
    /\ \E n \in StreamCounts, style \in HashStyles :
          streams = InitialStreams(n, style)
    /\ available \in { S \in SUBSET Cacheable(Len(streams)) : Cardinality(S) <= MaxCached }
    /\ listing \in [available -> Listings]
    /\ rpc = "idle"
    /\ bi = 0
    /\ processed_hashes = {}
    /\ stream_hashes = <<>>
    /\ runResult = "none"
    /\ added = {}
    /\ runs = 0
    /\ queries = <<>>
    /\ blAtStart = {}
    /\ blBefore = {}
    /\ lastOk = TRUE
    /\ lastCached = <<>>
    /\ lastMatch = <<>>

\* The resolver at rest, for the specifications that are not about it
ResolverIdle ==
    /\ initialized = FALSE
    /\ streams = <<>>
    /\ available = {}
    /\ listing = <<>>
    /\ rpc = "idle"
    /\ bi = 0
    /\ processed_hashes = {}
    /\ stream_hashes = <<>>
    /\ runResult = "none"
    /\ added = {}
    /\ runs = 0
    /\ queries = <<>>
    /\ blAtStart = {}
    /\ blBefore = {}
    /\ lastOk = TRUE
    /\ lastCached = <<>>
    /\ lastMatch = <<>>

GateIdle ==
    /\ gateItem = <<>>
    /\ gateNow = 0
    /\ gateResult = "none"

NoCont == [queue |-> <<>>, stage |-> "done", show |-> "", rest |-> <<>>]
NoCall == [item |-> "", outcome |-> "none", pass |-> 0]

ScrapeIdle ==
    /\ items = <<>>
    /\ clock = 0
    /\ ticks = 0
    /\ tokens = 0
    /\ last_call = 0
    /\ spc = "idle"
    /\ cont = NoCont
    /\ passNo = 0
    /\ raisedPass = 0
    /\ lastCall = NoCall
    /\ deferred = NoCont

NotMatched == [called |-> FALSE, raised |-> FALSE, value |-> <<>>]

MatchIdle ==
    /\ matchItem = <<>>
    /\ matchFiles = <<>>
    /\ matchResult = NotMatched

NotParsed ==
    [called |-> FALSE, raised |-> FALSE, streams |-> <<>>,
     processed_infohashes |-> {}, ranked |-> {}]

RankIdle ==
    /\ rankItem = <<>>
    /\ rankResults = <<>>
    /\ rankOut = NotParsed

InitRun == ResolverInit /\ GateIdle /\ ScrapeIdle /\ MatchIdle /\ RankIdle

NextRun == RunStart \/ RunBatch \/ RunEnd

SpecRun == InitRun /\ [][NextRun]_vars

(***************************************************************************)
(* The eligibility gate, Scraper._can_we_scrape.  Times are seconds;       *)
(* aired_at is <<>> for None and <<t>> for a date (the value strptime      *)
(* gives); scraped_at is 0 for an item never scraped.                      *)
(***************************************************************************)
CONTENT == "CONTENT"
LIBRARY_PARTIAL == "LIBRARY_PARTIAL"
MediaItemStates == {"UNKNOWN", CONTENT, "SCRAPE", "DOWNLOAD", "LIBRARY", LIBRARY_PARTIAL}
ItemTypes == {"movie", "show", "season", "episode"}

is_released_or_today(item, now) ==
    item.aired_at # <<>> /\ item.aired_at[1] <= now

is_released(item, now) ==
    item.aired_at # <<>> /\ item.aired_at[1] < now

needs_new_scrape_at_limit(item, now) ==
    now - item.scraped_at >= 60 * 30 \/ item.scraped_at = 0

needs_new_scrape(item, now) ==
    now - item.scraped_at > 60 * 30 \/ item.scraped_at = 0

valid_states_no_movie ==
    [t \in {"movie", "season", "episode"} |-> IF t = "movie" THEN {} ELSE {CONTENT}]

valid_states == [t \in {"movie", "season", "episode"} |-> {CONTENT}]

can_we_scrape(item, now) ==
    IF item.type = "show" /\ item.state \in {CONTENT, LIBRARY_PARTIAL}
    THEN TRUE
    ELSE IF item.type \in {"movie", "season", "episode"} /\ is_released(item, now)
    THEN IF item.state \in valid_states[item.type]
         THEN needs_new_scrape(item, now) ELSE FALSE
    ELSE FALSE

(***************************************************************************)
(* The gate on its own: an item and a clock are drawn, then the predicate  *)
(* is evaluated once.  Elapsed times since the last scrape lie within      *)
(* MaxSlack seconds of the cooldown.                                       *)
(***************************************************************************)
MaxSlack == 1

GateClock == 60 * 30 + MaxSlack + 1

GateItems ==
    [type : ItemTypes,
     state : MediaItemStates,
     aired_at : {<<>>} \cup { <<GateClock + d>> : d \in (0 - MaxSlack)..MaxSlack },
     scraped_at : {0} \cup { GateClock - (60 * 30 + d) : d \in (0 - MaxSlack)..MaxSlack }]

GateInit ==
    /\ gateItem \in GateItems
    /\ gateNow = GateClock
    /\ gateResult = "none"

GateCall ==
    /\ gateResult = "none"
    /\ gateResult' = IF can_we_scrape(gateItem, gateNow) THEN "true" ELSE "false"
    /\ UNCHANGED <<gateItem, gateNow>>
    /\ UNCHANGED notGate

InitGate == GateInit /\ ResolverIdle /\ ScrapeIdle /\ MatchIdle /\ RankIdle

NextGate == GateCall

SpecGate == InitGate /\ [][NextGate]_vars

(***************************************************************************)
(* Scrape passes.  The media items handed to Scraper.scrape: two movies    *)
(* and, between them, a show of two seasons with one episode each.         *)
(***************************************************************************)
Container == <<"m1", "sh", "m2">>
ItemIds == {"m1", "sh", "s1", "s2", "e1", "e2", "m2"}

TypeOf(id) ==
    CASE id \in {"m1", "m2"} -> "movie"
      [] id = "sh" -> "show"
      [] id \in {"s1", "s2"} -> "season"
      [] OTHER -> "episode"

\* item.seasons of a show, season.episodes of a season
seasons_of(id) == IF id = "sh" THEN <<"s1", "s2">> ELSE <<>>
episodes_of(id) ==
    CASE id = "s1" -> <<"e1">>
      [] id = "s2" -> <<"e2">>
      [] OTHER -> <<>>

\* MediaItem.is_scraped: the item holds streams
is_scraped(item) == item.streams # {}

(***************************************************************************)
(* The outer rate limiter, RateLimiter(max_calls=140, period=60*5,         *)
(* raise_on_limit=True), entered by api_scrape at line 113: the budget is  *)
(* refilled once a period has passed since the last call let through; an   *)
(* exhausted budget raises RateLimitExceeded instead of blocking.  The     *)
(* inner limiter (1 call per second) only waits, which is time passing.    *)
(***************************************************************************)
max_calls == 140
MaxStreamsKept == 20
MaxTokens == 2
MaxPasses == 2

Acquire(tok, lastc, t) ==
    LET refilled == IF t - lastc >= 60 * 5 THEN max_calls ELSE tok
    IN  IF refilled <= 0
        THEN [raised |-> TRUE, tokens |-> refilled, last_call |-> lastc]
        ELSE [raised |-> FALSE, tokens |-> refilled - 1, last_call |-> t]

(***************************************************************************)
(* What get(url, retry_if_failed=False) can do: raise RequestException, or *)
(* return a response that is ok or not, with its streams (infohash ids).   *)
(***************************************************************************)
GetOutcomes ==
    { [raises |-> TRUE, is_ok |-> FALSE, streams |-> <<>>],
      [raises |-> FALSE, is_ok |-> FALSE, streams |-> <<>>],
      [raises |-> FALSE, is_ok |-> TRUE, streams |-> <<>>],
      [raises |-> FALSE, is_ok |-> TRUE, streams |-> <<1, 1, 2>>] }

\* api_scrape, lines 137-143: the dict keyed by infoHash, at most 20 entries
RECURSIVE BuildData(_, _, _)
BuildData(strs, k, data) ==
    IF k > Len(strs) \/ Cardinality(data) >= MaxStreamsKept THEN data
    ELSE BuildData(strs, k + 1, data \cup {strs[k]})

(***************************************************************************)
(* Scraper.api_scrape for one item, at time t, with the limiter's state    *)
(* and the outcome of the request.  exc names the exception that leaves    *)
(* api_scrape, "none" when it returns data.                                *)
(***************************************************************************)
api_scrape_stamp_first(item, tok, lastc, t, got) ==
    LET lim == Acquire(tok, lastc, t)
    IN  IF lim.raised
        THEN [exc |-> "RateLimitExceeded", item |-> item, data |-> {},
              tokens |-> lim.tokens, last_call |-> lim.last_call]
        ELSE IF got.raises
        THEN [exc |-> "RequestException", item |-> [item EXCEPT !.scraped_at = t],
              data |-> {},
              tokens |-> lim.tokens, last_call |-> lim.last_call]
        ELSE [exc |-> "none", item |-> [item EXCEPT !.scraped_at = t],
              data |-> IF got.is_ok THEN BuildData(got.streams, 1, {}) ELSE {},
              tokens |-> lim.tokens, last_call |-> lim.last_call]

api_scrape(item, tok, lastc, t, got) ==
    LET lim == Acquire(tok, lastc, t)
    IN  IF lim.raised
        THEN [exc |-> "RateLimitExceeded", item |-> item, data |-> {},
              tokens |-> lim.tokens, last_call |-> lim.last_call]
        ELSE IF got.raises
        THEN [exc |-> "RequestException", item |-> item, data |-> {},
              tokens |-> lim.tokens, last_call |-> lim.last_call]
        ELSE [exc |-> "none", item |-> [item EXCEPT !.scraped_at = t],
              data |-> IF got.is_ok THEN BuildData(got.streams, 1, {}) ELSE {},
              tokens |-> lim.tokens, last_call |-> lim.last_call]

\* _scrape_items, lines 73-77: the streams are stored when there are any
store_streams(item, data) ==
    IF Cardinality(data) > 0 THEN [item EXCEPT !.streams = data] ELSE item

\* scrape, line 34
items_to_scrape(its, t) ==
    SelectSeq(Container, LAMBDA id : can_we_scrape(its[id], t))

\* _scrape_show, line 53
seasons_to_scrape(show, its, t) ==
    SelectSeq(seasons_of(show), LAMBDA id : can_we_scrape(its[id], t))

\* _scrape_show, lines 55-60
RECURSIVE episodes_from_any_season(_, _, _, _)
episodes_from_any_season(ss, k, its, t) ==
    IF k > Len(ss) THEN <<>>
    ELSE SelectSeq(episodes_of(ss[k]), LAMBDA id : can_we_scrape(its[id], t))
         \o episodes_from_any_season(ss, k + 1, its, t)

RECURSIVE episodes_from(_, _, _, _)
episodes_from(ss, k, its, t) ==
    IF k > Len(ss) THEN <<>>
    ELSE SelectSeq(episodes_of(ss[k]),
                   LAMBDA id : ~is_scraped(its[ss[k]]) /\ can_we_scrape(its[id], t))
         \o episodes_from(ss, k + 1, its, t)

episodes_to_scrape(show, its, t) == episodes_from(seasons_of(show), 1, its, t)

(***************************************************************************)
(* The control flow of scrape, _scrape_show and _scrape_items between two  *)
(* api_scrape calls: the calls queued by the current _scrape_items, and    *)
(* when they run out the episodes of the show (after its seasons) or the   *)
(* next item of the pass.                                                  *)
(***************************************************************************)
RECURSIVE Advance(_, _, _)
Advance(c, its, t) ==
    IF c.queue # <<>> THEN c
    ELSE IF c.stage = "seasons"
    THEN Advance([queue |-> episodes_to_scrape(c.show, its, t), stage |-> "episodes",
                  show |-> c.show, rest |-> c.rest], its, t)
    ELSE IF c.rest = <<>> THEN NoCont
    ELSE IF its[Head(c.rest)].type = "movie"
    THEN [queue |-> <<Head(c.rest)>>, stage |-> "movie", show |-> "",
          rest |-> Tail(c.rest)]
    ELSE Advance([queue |-> seasons_to_scrape(Head(c.rest), its, t),
                  stage |-> "seasons", show |-> Head(c.rest),
                  rest |-> Tail(c.rest)], its, t)

\* scrape, lines 41-46: an exception ends the loop over the items
after_exception_continue(c) ==
    [queue |-> <<>>, stage |-> "skipped", show |-> "", rest |-> c.rest]

after_exception(c) == NoCont

\* scrape, lines 29-35: a pass starts
PassStart ==
    /\ spc = "idle"
    /\ passNo < MaxPasses
    /\ passNo' = passNo + 1
    /\ cont' = Advance([queue |-> <<>>, stage |-> "start", show |-> "",
                        rest |-> items_to_scrape(items, clock)], items, clock)
    /\ spc' = IF cont'.stage = "done" THEN "idle" ELSE "scraping"
    /\ UNCHANGED <<items, clock, ticks, tokens, last_call, raisedPass, lastCall,
                   deferred>>
    /\ UNCHANGED notScrape

(***************************************************************************)
(* _scrape_items, lines 66-78, with api_scrape: the next queued call, and  *)
(* the pass carried on to the point of the call after it.                  *)
(***************************************************************************)
ScrapeCall ==
    /\ spc = "scraping"
    /\ \E got \in GetOutcomes :
          LET id == Head(cont.queue)
              res == api_scrape(items[id], tokens, last_call, clock, got)
              its == [items EXCEPT ![id] = store_streams(res.item, res.data)]
              left == [cont EXCEPT !.queue = Tail(@)]
              next == IF res.exc = "none" THEN Advance(left, its, clock)
                      ELSE Advance(after_exception(left), its, clock)
          IN  /\ items' = its
              /\ tokens' = res.tokens
              /\ last_call' = res.last_call
              /\ lastCall' = [item |-> id, outcome |-> res.exc, pass |-> passNo]
              /\ raisedPass' = IF res.exc = "none" THEN raisedPass ELSE passNo
              /\ deferred' = IF res.exc = "none" THEN deferred ELSE left
              /\ cont' = next
              /\ spc' = IF next.stage = "done" THEN "idle" ELSE "scraping"
    /\ UNCHANGED <<clock, ticks, passNo>>
    /\ UNCHANGED notScrape

\* Time passes between two passes: a second, the cooldown of 30 minutes, or
\* a second more.  A pass itself is short against the cooldown and the
\* limiter's period.
TickSteps == {1, 60 * 30, 60 * 30 + 1}

Tick ==
    /\ spc = "idle"
    /\ ticks < passNo
    /\ \E d \in TickSteps : clock' = clock + d
    /\ ticks' = ticks + 1
    /\ UNCHANGED <<items, tokens, last_call, spc, cont, passNo, raisedPass,
                   lastCall, deferred>>
    /\ UNCHANGED notScrape

(***************************************************************************)
(* The items when the first pass starts: all in state Content, aired and   *)
(* never scraped, except that one item may be in the library already, one  *)
(* may have no air date, and the show may be partially in the library.     *)
(***************************************************************************)
StartClock == 60 * 30 + 1

InitialItems(special, how, partial) ==
    [id \in ItemIds |->
        [type |-> TypeOf(id),
         state |-> IF id = special /\ how = "library" THEN "LIBRARY"
                   ELSE IF id = "sh" /\ partial THEN LIBRARY_PARTIAL
                   ELSE CONTENT,
         aired_at |-> IF id = special /\ how = "unaired" THEN <<>> ELSE <<0>>,
         scraped_at |-> 0,
         streams |-> {}]]

ScrapeInit ==
    /\ \E special \in ItemIds \cup {"-"}, how \in {"library", "unaired"},
          partial \in BOOLEAN :
          items = InitialItems(special, how, partial)
    /\ clock = StartClock
    /\ ticks = 0
    /\ tokens \in 0..MaxTokens
    /\ last_call = StartClock
    /\ spc = "idle"
    /\ cont = NoCont
    /\ passNo = 0
    /\ raisedPass = 0
    /\ lastCall = NoCall
    /\ deferred = NoCont

InitScrape == ScrapeInit /\ ResolverIdle /\ GateIdle /\ MatchIdle /\ RankIdle

NextScrape == PassStart \/ ScrapeCall \/ Tick

SpecScrape == InitScrape /\ [][NextScrape]_vars

(***************************************************************************)
(* The File Matcher on its own: an item and a provider listing are drawn,  *)
(* then find_required_files is called once.  The items: a show of one      *)
(* season with the episodes 1 and 2, of which the second may be Completed; *)
(* a season (number 1, of a show of one or two seasons) with the episodes  *)
(* 1 and 2 or the episode 3; an episode; a movie.                          *)
(***************************************************************************)
MaxFiles == 3

Ep(n, st) == [number |-> n, state |-> st, is_released |-> TRUE]

MatchItems ==
    { [type |-> "show",
       seasons |-> <<[number |-> 1, state |-> "Indexed", is_released |-> TRUE,
                      episodes |-> <<Ep(1, "Indexed"), Ep(2, st)>>]>>] :
         st \in {"Indexed", "Completed"} }
    \cup
    { [type |-> "season", number |-> 1, episodes |-> eps,
       parent |-> [seasons |-> sib]] :
         eps \in { <<Ep(1, "Indexed"), Ep(2, "Indexed")>>,
                   <<Ep(1, "Completed"), Ep(2, "Indexed")>>,
                   <<Ep(3, "Indexed")>> },
         sib \in { <<1>>, <<1, 2>> } }
    \cup
    { [type |-> "episode", number |-> 1, parent |-> [number |-> 1]],
      [type |-> "movie"] }

\* A file of the listing, with what RTN.parse makes of its name
EpisodeFile(ss, es) ==
    [size |-> 20000, ext |-> ".mkv", type |-> "show", seasons |-> ss, episodes |-> es]

MatchFilePool ==
    { EpisodeFile(<<1>>, <<1>>), EpisodeFile(<<1>>, <<2>>), EpisodeFile(<<1>>, <<3>>),
      EpisodeFile(<<>>, <<3>>),
      [size |-> 20000, ext |-> ".mkv", type |-> "movie", seasons |-> <<>>,
       episodes |-> <<>>],
      [size |-> 5000, ext |-> ".mkv", type |-> "show", seasons |-> <<1>>,
       episodes |-> <<2>>] }

MatchInit ==
    /\ matchItem \in MatchItems
    /\ matchFiles \in UNION { [1..n -> MatchFilePool] : n \in 0..MaxFiles }
    /\ matchResult = NotMatched

MatchCall ==
    /\ ~matchResult.called
    /\ LET found == find_required_files(matchItem, matchFiles)
       IN  matchResult' = [called |-> TRUE, raised |-> found.raised,
                           value |-> found.value]
    /\ UNCHANGED <<matchItem, matchFiles>>
    /\ UNCHANGED notMatch

InitMatch == MatchInit /\ ResolverIdle /\ GateIdle /\ ScrapeIdle /\ RankIdle

NextMatch == MatchCall

SpecMatch == InitMatch /\ [][NextMatch]_vars

(***************************************************************************)
(* The Candidate Ranker, _parse_results (src/src/program/scrapers/         *)
(* shared.py).  Objects are records; reading an attribute an object does   *)
(* not have raises AttributeError.  A media item has type, country and     *)
(* is_anime; a movie has aired_at; a show has seasons (each with number    *)
(* and last_state); a season has number and parent (its show); an episode  *)
(* has number and parent (its season).  A movie and a show have no parent. *)
(***************************************************************************)
HasAttr(obj, a) == a \in DOMAIN obj

\* str.upper() of a country code
upper(c) ==
    CASE c = "us" -> "US"
      [] c = "gb" -> "GB"
      [] OTHER -> c

\* [season.number for season in seasons if season.last_state != States.Completed]
Numbers(seasons) == [k \in 1..Len(seasons) |-> seasons[k].number]

NotCompleted(seasons) ==
    Numbers(SelectSeq(seasons, LAMBDA season : season.last_state # "Completed"))

(***************************************************************************)
(* _get_needed_seasons(profile), lines 153-161.  It reads profile.parent   *)
(* and is called with the media item itself (line 45).                     *)
(***************************************************************************)
get_needed_seasons(profile) ==
    IF ~HasAttr(profile, "parent") THEN Raised
    ELSE IF profile.parent.type = "show" \/ profile.parent.type = "season"
    THEN IF ~HasAttr(profile.parent, "seasons") THEN Raised
         ELSE Returned(NotCompleted(profile.parent.seasons))
    ELSE IF profile.parent.type = "episode"
    THEN IF ~HasAttr(profile.parent, "parent")
            \/ ~HasAttr(profile.parent.parent, "seasons") THEN Raised
         ELSE Returned(NotCompleted(profile.parent.parent.seasons))
    ELSE Returned(<<>>)

(***************************************************************************)
(* _get_item_country(profile), lines 145-151, called with the media item   *)
(* (line 62).                                                              *)
(***************************************************************************)
get_item_country(profile) ==
    IF ~HasAttr(profile, "parent") THEN Raised
    ELSE IF profile.parent.type = "season"
    THEN Returned(upper(profile.parent.country))
    ELSE IF profile.parent.type = "episode"
    THEN IF ~HasAttr(profile.parent, "parent") THEN Raised
         ELSE Returned(upper(profile.parent.parent.country))
    ELSE Returned(upper(profile.parent.country))

(***************************************************************************)
(* _check_item_year(profile, parsed_data), lines 138-143, called with the  *)
(* media item (line 76).  A parsed year of 0 stands for None.              *)
(***************************************************************************)
check_item_year(profile, parsed_data) ==
    IF ~HasAttr(profile, "parent") \/ ~HasAttr(profile.parent, "aired_at") THEN Raised
    ELSE LET year_range == {profile.parent.aired_at.year - 1,
                            profile.parent.aired_at.year,
                            profile.parent.aired_at.year + 1}
         IN  IF profile.parent.type = "movie" /\ parsed_data.year # 0
             THEN Returned(parsed_data.year \in year_range)
             ELSE Returned(FALSE)

(***************************************************************************)
(* rtn.rank(raw_title, infohash, ...), lines 52-58: the Torrent, with the  *)
(* infohash as it was given, or ValueError / GarbageTorrent.  A raw title  *)
(* is what the primitive makes of it: fail, country ("" for none),         *)
(* complete, year, seasons, episodes, rank.                                *)
(***************************************************************************)
rtn_rank(raw_title, infohash) ==
    IF raw_title.fail # "none"
    THEN [exc |-> raw_title.fail, torrent |-> <<>>]
    ELSE [exc |-> "none",
          torrent |-> [infohash |-> infohash, rank |-> raw_title.rank,
                       data |-> [country |-> raw_title.country,
                                 complete |-> raw_title.complete,
                                 year |-> raw_title.year,
                                 seasons |-> raw_title.seasons,
                                 episodes |-> raw_title.episodes]]]

\* any(season in torrent.data.seasons for season in needed_seasons)
AnyNeeded(needed_seasons, data) ==
    \E k \in 1..Len(needed_seasons) : needed_seasons[k] \in Range(data.seasons)

(***************************************************************************)
(* Lines 61-112 for one ranked torrent: whether it is added to torrents    *)
(* and whether its infohash is added to processed_infohashes.  Skipped is  *)
(* a `continue` that does neither: the country filter (line 65) and the    *)
(* except clause for AttributeError (lines 114-120).                       *)
(***************************************************************************)
Skipped == [add |-> FALSE, processed |-> FALSE]
Judged(admit) == [add |-> admit, processed |-> TRUE]

Series == {"show", "season", "episode"}

Consider(item, needed_seasons, torrent) ==
    LET data == torrent.data
        filtered == data.country # "" /\ ~item.is_anime
        country == IF filtered THEN get_item_country(item) ELSE Returned("")
    IN  IF filtered /\ country.raised THEN Skipped
        ELSE IF filtered /\ country.value # data.country THEN Skipped
        ELSE IF item.type \in Series /\ data.complete THEN Judged(TRUE)
        ELSE IF item.type = "movie"
        THEN LET in_range == check_item_year(item, data)
             IN  IF in_range.raised THEN Skipped ELSE Judged(in_range.value)
        ELSE IF item.type = "show"
        THEN Judged(/\ data.seasons # <<>> /\ data.episodes = <<>>
                    /\ Len(data.seasons) >= Len(needed_seasons) - 1)
        ELSE IF item.type = "season"
        THEN Judged(AnyNeeded(needed_seasons, data) /\ data.episodes = <<>>)
        ELSE IF item.type = "episode"
        THEN Judged(\/ /\ item.number \in Range(data.episodes)
                       /\ item.parent.number \in Range(data.seasons)
                    \/ /\ Len(item.parent.parent.seasons) = 1
                       /\ data.seasons = <<>>
                       /\ item.number \in Range(data.episodes)
                    \/ /\ AnyNeeded(needed_seasons, data)
                       /\ data.episodes = <<>>)
        ELSE Judged(FALSE)

\* torrents.add(torrent): Torrent objects are equal when their infohashes are
SetAdd(torrents, torrent) ==
    IF \E t \in torrents : t.infohash = torrent.infohash THEN torrents
    ELSE torrents \cup {torrent}

(***************************************************************************)
(* The loop of lines 47-124 from the k-th raw result on.  ranked collects  *)
(* the positions of the results handed to rtn.rank.                        *)
(***************************************************************************)
RECURSIVE ParseLoop(_, _, _, _, _, _, _)
ParseLoop(item, needed_seasons, results, k, torrents, processed_infohashes, ranked) ==
    IF k > Len(results)
    THEN [torrents |-> torrents, processed_infohashes |-> processed_infohashes,
          ranked |-> ranked]
    ELSE LET infohash == results[k].infohash
         IN  IF infohash \in processed_infohashes
             THEN ParseLoop(item, needed_seasons, results, k + 1, torrents,
                            processed_infohashes, ranked)
             ELSE LET r == rtn_rank(results[k].raw_title, infohash)
                      c == IF r.exc # "none" THEN Skipped
                           ELSE Consider(item, needed_seasons, r.torrent)
                  IN  ParseLoop(item, needed_seasons, results, k + 1,
                          IF c.add THEN SetAdd(torrents, r.torrent) ELSE torrents,
                          IF c.processed THEN processed_infohashes \cup {infohash}
                          ELSE processed_infohashes,
                          ranked \cup {k})

\* sort_torrents (RTN): by rank, highest first
sort_torrents(torrents) ==
    CHOOSE f \in Perms(torrents) :
        \A a, b \in 1..Cardinality(torrents) : a < b => f[a].rank >= f[b].rank

\* Stream(torrent), keyed by torrent.infohash (lines 129-131)
Stream(torrent) == [infohash |-> torrent.infohash, rank |-> torrent.rank]

(***************************************************************************)
(* _parse_results(profile, results), lines 36-133, for the media item      *)
(* profile.parent.  raised: AttributeError leaves the function at line 45. *)
(***************************************************************************)
parse_results(item, results) ==
    LET needed == IF item.type \in Series THEN get_needed_seasons(item)
                  ELSE Returned(<<>>)
    IN  IF needed.raised
        THEN [raised |-> TRUE, streams |-> <<>>, processed_infohashes |-> {},
              ranked |-> {}]
        ELSE LET done == ParseLoop(item, needed.value, results, 1, {}, {}, {})
                 sorted == sort_torrents(done.torrents)
             IN  [raised |-> FALSE,
                  streams |-> IF done.torrents # {}
                              THEN [k \in 1..Len(sorted) |-> Stream(sorted[k])]
                              ELSE <<>>,
                  processed_infohashes |-> done.processed_infohashes,
                  ranked |-> done.ranked]

(***************************************************************************)
(* The ranker on its own: a media item and raw results are drawn, then     *)
(* _parse_results is called once.  The shows have one season, two seasons, *)
(* or two seasons of which the second is Completed.  The raw results are   *)
(* a dict: their infohashes are distinct strings, of which the second may  *)
(* be the first one's in upper case.                                       *)
(***************************************************************************)
MaxResults == 2

ItemYear == 2019

RankShows ==
    { [type |-> "show", country |-> "us", is_anime |-> FALSE, seasons |-> ss] :
        ss \in { <<[number |-> 1, last_state |-> "Indexed"]>>,
                 <<[number |-> 1, last_state |-> "Indexed"],
                   [number |-> 2, last_state |-> "Indexed"]>>,
                 <<[number |-> 1, last_state |-> "Indexed"],
                   [number |-> 2, last_state |-> "Completed"]>> } }

SeasonOf(show) ==
    [type |-> "season", number |-> 1, country |-> "us", is_anime |-> FALSE,
     parent |-> show]

EpisodeOf(show) ==
    [type |-> "episode", number |-> 1, country |-> "us", is_anime |-> FALSE,
     parent |-> SeasonOf(show)]

RankItems ==
    { [type |-> "movie", country |-> "us", is_anime |-> a,
       aired_at |-> [year |-> ItemYear]] : a \in BOOLEAN }
    \cup RankShows
    \cup { SeasonOf(show) : show \in RankShows }
    \cup { EpisodeOf(show) : show \in RankShows }

Title(cn, cp, y, ss, es, rk) ==
    [fail |-> "none", country |-> cn, complete |-> cp, year |-> y,
     seasons |-> ss, episodes |-> es, rank |-> rk]

FailedTitle(exc) ==
    [fail |-> exc, country |-> "", complete |-> FALSE, year |-> 0,
     seasons |-> <<>>, episodes |-> <<>>, rank |-> 0]

\* What the primitive can make of a raw title, by the kind of item scraped
TitlePool(type) ==
    { FailedTitle("ValueError"), FailedTitle("GarbageTorrent") } \cup
    IF type = "movie"
    THEN { Title("", FALSE, y, <<>>, <<>>, 5) :
             y \in {0, ItemYear - 1, ItemYear, ItemYear + 1, ItemYear + 2} }
         \cup { Title("US", FALSE, ItemYear, <<>>, <<>>, 6),
                Title("GB", FALSE, ItemYear, <<>>, <<>>, 7) }
    ELSE { Title("", TRUE, 0, <<>>, <<>>, 9),
           Title("", FALSE, 0, <<1>>, <<>>, 8),
           Title("", FALSE, 0, <<2>>, <<>>, 7),
           Title("", FALSE, 0, <<1>>, <<1>>, 6),
           Title("", FALSE, 0, <<1>>, <<2>>, 5),
           Title("", FALSE, 0, <<>>, <<1>>, 4),
           Title("US", FALSE, 0, <<1>>, <<>>, 3),
           Title("GB", FALSE, 0, <<1>>, <<>>, 2),
           Title("GB", TRUE, 0, <<>>, <<>>, 1) }

\* The infohash of the n-th raw result: a new one, or for the last result
\* the first one's in upper case
ResultHashes(n) ==
    { [k \in 1..n |-> Hash(k, FALSE)] } \cup
    IF n >= 2 THEN { [k \in 1..n |-> IF k = n THEN Hash(1, TRUE) ELSE Hash(k, FALSE)] }
    ELSE {}

RawResults(type) ==
    UNION { { [k \in 1..n |-> [infohash |-> hs[k], raw_title |-> ts[k]]] :
                hs \in ResultHashes(n), ts \in [1..n -> TitlePool(type)] } :
            n \in 0..MaxResults }

RankInit ==
    /\ rankItem \in RankItems
    /\ rankResults \in RawResults(rankItem.type)
    /\ rankOut = NotParsed

ParseCall ==
    /\ ~rankOut.called
    /\ LET out == parse_results(rankItem, rankResults)
       IN  rankOut' = [called |-> TRUE, raised |-> out.raised,
                       streams |-> out.streams,
                       processed_infohashes |-> out.processed_infohashes,
                       ranked |-> out.ranked]
    /\ UNCHANGED <<rankItem, rankResults>>
    /\ UNCHANGED notRank

InitRank == RankInit /\ ResolverIdle /\ GateIdle /\ ScrapeIdle /\ MatchIdle

NextRank == ParseCall

SpecRank == InitRank /\ [][NextRank]_vars

(***************************************************************************)
(* Notions the statements below use.                                       *)
(***************************************************************************)
\* The k-th batch of the stored streams, as the lower-cased infohashes
BatchHashes(strs, k) ==
    { lower(strs[j].infohash) :
        j \in ((k - 1) * batch_size + 1)..Min(k * batch_size, Len(strs)) }

DistinctHashes(strs) ==
    \A a, b \in 1..Len(strs) :
        lower(strs[a].infohash) = lower(strs[b].infohash) => a = b

\* A file listing satisfies a movie item: it holds a file of a wanted format,
\* above the minimum size, whose name parses as a movie
Satisfies(item, container) ==
    \E n \in 1..Len(container) :
        /\ container[n].size > MinFileSize
        /\ container[n].ext \in WANTED_FORMATS
        /\ item.type = "movie" /\ container[n].type = "movie"

\* Positions (rank order) of the streams the last answer reports cached
CachedStreams == { StreamOf(stream_hashes, lower(lastCached[k].hash)) :
                     k \in 1..Len(lastCached) } \ {0}

\* Positions of the streams the last answer reports cached with files that
\* satisfy the item
OfferedStreams ==
    { StreamOf(stream_hashes, lower(lastCached[k].hash)) :
        k \in { n \in 1..Len(lastCached) :
                  Satisfies(ResolvedItem, lastCached[n].files) } } \ {0}

(***************************************************************************)
(* C1.  For an item whose N stored streams have pairwise distinct          *)
(* infohashes, the k-th availability query of a run carries exactly the    *)
(* infohashes of the k-th batch of at most batch_size streams, and a run    *)
(* that ends without a selection has issued exactly ceil(N / batch_size)   *)
(* queries.                                                                *)
(***************************************************************************)
C1_QueriesCarryOneBatch ==
    DistinctHashes(streams) =>
        /\ \A k \in 1..Len(queries) : queries[k] = BatchHashes(streams, k)
        /\ (rpc = "idle" /\ runs > 0 /\ initialized /\ runResult = "false")
               => Len(queries) = (Len(streams) + batch_size - 1) \div batch_size

(***************************************************************************)
(* C2.  When the provider reports a stream's infohash cached with a file   *)
(* listing that does not satisfy the item, the File Matcher returns empty  *)
(* for it and the stream's blacklisted flag is left as it was; the streams *)
(* a batch blacklists are among those the provider did not report cached.  *)
(***************************************************************************)
C2_CachedUnsatisfyingKept ==
    /\ \A k \in 1..Len(lastCached) :
          (k <= Len(lastMatch) /\ ~Satisfies(ResolvedItem, lastCached[k].files)) =>
              /\ lastMatch[k] = "empty"
              /\ LET j == StreamOf(stream_hashes, lower(lastCached[k].hash))
                 IN  j # 0 => (streams[j].blacklisted <=> j \in blBefore)
    /\ (Blacklisted(streams) \ blBefore) \cap CachedStreams = {}

(***************************************************************************)
(* C3.  A stream that is blacklisted when a run starts is not retried: no  *)
(* availability query of that run carries its infohash, and it is not the  *)
(* stream added for download.                                              *)
(***************************************************************************)
C3_BlacklistedNotRetried ==
    \A j \in blAtStart :
        /\ \A k \in 1..Len(queries) : lower(streams[j].infohash) \notin queries[k]
        /\ runResult = "true" => \A h \in added : lower(h) # lower(streams[j].infohash)

(***************************************************************************)
(* C4.  A run that is offered cached streams whose files satisfy the item  *)
(* returns, and when it returns success the infohash it added belongs to   *)
(* the first of them in rank order, whatever order the provider listed     *)
(* them in.                                                                *)
(***************************************************************************)
C4_FirstRankedSelected ==
    (rpc = "idle" /\ runs > 0 /\ OfferedStreams # {}) =>
        /\ runResult \in {"true", "false"}
        /\ runResult = "true" =>
              \E h \in added :
                  \A j \in OfferedStreams :
                      StreamOf(stream_hashes, lower(h)) <= j

(***************************************************************************)
(* C5.  Stream.blacklisted is monotonic: no step of any run turns a        *)
(* stream's flag from true to false, so a stream blacklisted by one run is *)
(* blacklisted after every later run.                                      *)
(***************************************************************************)
C5_BlacklistedMonotonic ==
    [][\A j \in 1..Len(streams) :
          streams[j].blacklisted => streams'[j].blacklisted]_vars

\* a second run has ended and the streams blacklisted before it still are
C5_Witness ==
    /\ runs >= 2
    /\ rpc = "idle"
    /\ blAtStart # {}
    /\ blAtStart \subseteq Blacklisted(streams)

(***************************************************************************)
(* C6.  The gate is true exactly for a Show in state Content or            *)
(* PartiallyCompleted, and for a Movie/Season/Episode that has aired       *)
(* strictly before now, is in state Content and was never scraped or was   *)
(* scraped long enough ago.                                                *)
(***************************************************************************)
Released(item, now) == item.aired_at # <<>> /\ item.aired_at[1] < now

\* as stated: at least 30 minutes since scraped_at
C6_EligibleAtLeastCooldown ==
    gateResult # "none" =>
        ( gateResult = "true" <=>
            \/ gateItem.type = "show" /\ gateItem.state \in {CONTENT, LIBRARY_PARTIAL}
            \/ /\ gateItem.type \in {"movie", "season", "episode"}
               /\ Released(gateItem, gateNow)
               /\ gateItem.state = CONTENT
               /\ (gateItem.scraped_at = 0 \/ gateNow - gateItem.scraped_at >= 60 * 30) )

\* as the code decides: more than 30 minutes since scraped_at
C6_EligibleAfterCooldown ==
    gateResult # "none" =>
        ( gateResult = "true" <=>
            \/ gateItem.type = "show" /\ gateItem.state \in {CONTENT, LIBRARY_PARTIAL}
            \/ /\ gateItem.type \in {"movie", "season", "episode"}
               /\ Released(gateItem, gateNow)
               /\ gateItem.state = CONTENT
               /\ (gateItem.scraped_at = 0 \/ gateNow - gateItem.scraped_at > 60 * 30) )

\* an aired movie in state Content scraped exactly 30 minutes ago is refused
C6_Witness ==
    /\ gateResult = "false"
    /\ gateItem.type = "movie"
    /\ gateItem.state = CONTENT
    /\ Released(gateItem, gateNow)
    /\ gateItem.scraped_at # 0
    /\ gateNow - gateItem.scraped_at = 60 * 30

(***************************************************************************)
(* C7.  Every item in state Content with scraped_at = 0 is eligible.       *)
(***************************************************************************)
\* as stated: of any type, whatever the air date
C7_NeverScrapedEligible ==
    (gateResult # "none" /\ gateItem.state = CONTENT /\ gateItem.scraped_at = 0)
        => gateResult = "true"

\* as the code decides: a Show, or a Movie/Season/Episode that has aired
C7_NeverScrapedAiredEligible ==
    ( /\ gateResult # "none"
      /\ gateItem.state = CONTENT
      /\ gateItem.scraped_at = 0
      /\ \/ gateItem.type = "show"
         \/ gateItem.type \in {"movie", "season", "episode"}
              /\ Released(gateItem, gateNow) )
        => gateResult = "true"

C7_Witness ==
    /\ gateResult = "true"
    /\ gateItem.type = "movie"
    /\ gateItem.state = CONTENT
    /\ gateItem.scraped_at = 0
    /\ Released(gateItem, gateNow)

(***************************************************************************)
(* C8.  An item that has not yet aired (no air date, or one not strictly   *)
(* before now) is not eligible.                                            *)
(***************************************************************************)
\* as stated: of any type and in any state
C8_UnairedIneligible ==
    (gateResult # "none" /\ ~Released(gateItem, gateNow)) => gateResult = "false"

\* as the code decides: unless it is a Show in state Content or PartiallyCompleted
C8_UnairedNonShowIneligible ==
    ( /\ gateResult # "none"
      /\ ~Released(gateItem, gateNow)
      /\ ~(gateItem.type = "show" /\ gateItem.state \in {CONTENT, LIBRARY_PARTIAL}) )
        => gateResult = "false"

\* a movie in state Content, never scraped, airing right now, is refused
C8_Witness ==
    /\ gateResult = "false"
    /\ gateItem.type = "movie"
    /\ gateItem.state = CONTENT
    /\ gateItem.scraped_at = 0
    /\ gateItem.aired_at = <<gateNow>>

(***************************************************************************)
(* C9.  Once a scrape call of a pass has raised RateLimitExceeded or       *)
(* RequestException, the pass makes no further outbound call, and no       *)
(* item's streams or scraped_at change: neither in the step that raises    *)
(* nor in any later step of that pass.                                     *)
(***************************************************************************)
Raises == {"RateLimitExceeded", "RequestException"}

SameScrapeData(a, b) == a.streams = b.streams /\ a.scraped_at = b.scraped_at

C9_RaiseEndsThePass ==
    [][ /\ (raisedPass = passNo /\ passNo' = passNo) =>
              /\ lastCall' = lastCall
              /\ \A id \in DOMAIN items : SameScrapeData(items'[id], items[id])
        /\ (lastCall' # lastCall /\ lastCall'.outcome \in Raises) =>
              /\ spc' = "idle"
              /\ \A id \in DOMAIN items : SameScrapeData(items'[id], items[id])
      ]_vars

\* a call for a season raised while the other season, the episodes and a
\* movie were still to come, and the pass is over
C9_Witness ==
    /\ raisedPass = passNo
    /\ passNo > 0
    /\ spc = "idle"
    /\ lastCall.outcome \in Raises
    /\ lastCall.item = "s1"
    /\ deferred.queue # <<>>
    /\ deferred.rest # <<>>

(***************************************************************************)
(* C10.  A scrape call that fails with a transport error or is refused by  *)
(* the exhausted outer budget leaves the item's scraped_at and streams as  *)
(* they were, and the item stays eligible: the next pass retries it        *)
(* without waiting for the cooldown.                                       *)
(***************************************************************************)
C10_FailedCallLeavesItem ==
    /\ [][ (lastCall' # lastCall /\ lastCall'.outcome \in Raises) =>
              SameScrapeData(items'[lastCall'.item], items[lastCall'.item]) ]_vars
    /\ [](lastCall.outcome \in Raises => can_we_scrape(items[lastCall.item], clock))

\* an item whose call raised in one pass is called again in the next pass,
\* less than the cooldown later
C10_Witness ==
    /\ lastCall.outcome = "none"
    /\ lastCall.pass >= 2
    /\ raisedPass = lastCall.pass - 1
    /\ deferred.stage = "movie"
    /\ deferred.rest # <<>>
    /\ lastCall.item = "m1"
    /\ clock - StartClock < 60 * 30

(***************************************************************************)
(* C11.  When the provider answers an availability query with an error     *)
(* response, run handles the batch exactly as it handles an answer with    *)
(* nothing cached: no exception leaves run, no torrent is added, the       *)
(* File Matcher is not consulted, and the loop goes on to the next batch.  *)
(***************************************************************************)
C11_ErrorResponseIsNothingCached ==
    [][ (Len(queries') = Len(queries) + 1 /\ ~lastOk') =>
            /\ lastCached' = <<>>
            /\ lastMatch' = <<>>
            /\ runResult' = "none"
            /\ added' = added
            /\ rpc' = "loop"
            /\ bi' = bi + batch_size
            /\ streams' = HandleCached(ResolvedItem, <<>>, streams,
                                       stream_hashes', <<>>).strs
      ]_vars

\* the provider holds an infohash of the query, answered with an error, and
\* run is about to query the next batch
C11_Witness ==
    /\ rpc = "loop"
    /\ queries # <<>>
    /\ ~lastOk
    /\ \E h \in queries[Len(queries)] : h.id \in available
    /\ bi < Len(streams)
    /\ runResult = "none"

(***************************************************************************)
(* C19.  After a batch whose availability query reported nothing cached,   *)
(* every stream of that batch is blacklisted, no torrent has been added    *)
(* and run has not ended with an exception or a selection.                 *)
(***************************************************************************)
LastBatch == (bi - batch_size + 1)..Min(bi, Len(streams))

C19_NothingCachedBlacklistsBatch ==
    (queries # <<>> /\ lastCached = <<>>) =>
        /\ \A j \in LastBatch : streams[j].blacklisted
        /\ added = {}
        /\ runResult \in {"none", "false"}

(***************************************************************************)
(* Notions of the File Matcher's statements: the files that pass the       *)
(* pre-filter, each with its own parse; the (season, episode) pairs a show *)
(* still needs and the episodes a season still needs.                      *)
(***************************************************************************)
Accepted(container) ==
    SelectSeq(container, LAMBDA f : f.size > MinFileSize /\ f.ext \in WANTED_FORMATS)

NeededPairs(show) ==
    UNION { { <<s.number, e.number>> :
                e \in { x \in Range(s.episodes) :
                          x.state # "Completed" /\ x.is_released } } :
            s \in { x \in Range(show.seasons) :
                      x.state # "Completed" /\ x.is_released } }

NeededOfSeason(season) ==
    { e.number : e \in { x \in Range(season.episodes) : x.state # "Completed" } }

NamesPair(f, p) == p[1] \in Range(f.seasons) /\ p[2] \in Range(f.episodes)

(***************************************************************************)
(* C16.  For a Show that needs some episode, find_required_files returns,  *)
(* and returns a non-empty selection exactly when the accepted files name  *)
(* every needed (season, episode) pair; the selection is then the accepted *)
(* files that name a needed pair, in the listing's order.                  *)
(***************************************************************************)
C16_ShowAllOrNothing ==
    (matchResult.called /\ matchItem.type = "show" /\ NeededPairs(matchItem) # {}) =>
        LET acc == Accepted(matchFiles)
            needed == NeededPairs(matchItem)
            covered == \A p \in needed : \E f \in Range(acc) : NamesPair(f, p)
        IN  /\ ~matchResult.raised
            /\ matchResult.value # <<>> <=> covered
            /\ covered => matchResult.value =
                   SelectSeq(acc, LAMBDA f : \E p \in needed : NamesPair(f, p))

(***************************************************************************)
(* C17.  For a Season, find_required_files returns, and a non-empty        *)
(* selection names every needed episode of the season: a listing that      *)
(* leaves a needed episode without a file yields the empty result.         *)
(***************************************************************************)
C17_SeasonNeverPartial ==
    (matchResult.called /\ matchItem.type = "season") =>
        /\ ~matchResult.raised
        /\ matchResult.value # <<>> =>
              \A n \in NeededOfSeason(matchItem) :
                  \E f \in Range(matchResult.value) : n \in Range(f.episodes)

(***************************************************************************)
(* C18.  For a Season whose parent show has exactly one season and which   *)
(* needs only episode 3, an accepted file whose name carries no season     *)
(* number and names episode 3 is matched: it is in the returned selection. *)
(***************************************************************************)
C18_SingleSeasonExemption ==
    ( /\ matchResult.called
      /\ matchItem.type = "season"
      /\ Len(matchItem.parent.seasons) = 1
      /\ NeededOfSeason(matchItem) = {3}
      /\ Accepted(matchFiles) = <<EpisodeFile(<<>>, <<3>>)>> ) =>
        /\ ~matchResult.raised
        /\ matchResult.value = <<EpisodeFile(<<>>, <<3>>)>>

(***************************************************************************)
(* Notions of the ranker's statements: the show an item belongs to, the    *)
(* seasons of it that are not yet Completed, whether a raw title parses,   *)
(* whether it passes the country filter, and whether the output holds a    *)
(* Stream for an infohash.                                                 *)
(***************************************************************************)
ShowOf(item) ==
    CASE item.type = "season" -> item.parent
      [] item.type = "episode" -> item.parent.parent
      [] OTHER -> item

NeededSeasons(item) ==
    { s.number : s \in { x \in Range(ShowOf(item).seasons) :
                           x.last_state # "Completed" } }

Parses(t) == t.fail = "none"

PassesCountry(item, t) ==
    ~(t.country # "" /\ ~item.is_anime /\ t.country # upper(ShowOf(item).country))

IsSeasonPack(item, t) ==
    Range(t.seasons) \cap NeededSeasons(item) # {} /\ t.episodes = <<>>

InOutput(h) == \E k \in 1..Len(rankOut.streams) : rankOut.streams[k].infohash = h

(***************************************************************************)
(* C12.  For a Season item, when the raw results hold the same infohash    *)
(* twice, differing only by letter case, only the first occurrence is      *)
(* handed to the rank primitive, and the output holds exactly one Stream   *)
(* for that infohash when the first occurrence is admissible.              *)
(***************************************************************************)
C12_CaseDuplicateEmittedOnce ==
    (rankOut.called /\ rankItem.type = "season") =>
        \A i, j \in 1..Len(rankResults) :
            (i < j /\ lower(rankResults[i].infohash) = lower(rankResults[j].infohash)) =>
                /\ j \notin rankOut.ranked
                /\ LET t == rankResults[i].raw_title
                       emitted == { k \in 1..Len(rankOut.streams) :
                                      lower(rankOut.streams[k].infohash)
                                          = lower(rankResults[i].infohash) }
                   IN  (Parses(t) /\ PassesCountry(rankItem, t)
                          /\ (t.complete \/ IsSeasonPack(rankItem, t)))
                           => Cardinality(emitted) = 1

(***************************************************************************)
(* C13.  For a Movie item, a candidate that parses and passes the country  *)
(* filter is in the output exactly when its parsed year is present and     *)
(* lies in [item.year - 1, item.year + 1].                                 *)
(***************************************************************************)
C13_MovieYearWindow ==
    (rankOut.called /\ rankItem.type = "movie") =>
        \A k \in 1..Len(rankResults) :
            LET t == rankResults[k].raw_title
            IN  (Parses(t) /\ PassesCountry(rankItem, t)) =>
                    ( InOutput(rankResults[k].infohash) <=>
                        /\ t.year # 0
                        /\ t.year \in (rankItem.aired_at.year - 1)..
                                      (rankItem.aired_at.year + 1) )

(***************************************************************************)
(* C14.  For an Episode item the ranker returns, and a candidate that      *)
(* parses, passes the country filter and is not marked complete is in the  *)
(* output exactly when it names this episode and the parent season, or     *)
(* the show has one season and it names this episode and no season, or it  *)
(* covers a needed season and names no episodes.                           *)
(***************************************************************************)
C14_EpisodeAdmissibility ==
    (rankOut.called /\ rankItem.type = "episode") =>
        /\ ~rankOut.raised
        /\ \A k \in 1..Len(rankResults) :
              LET t == rankResults[k].raw_title
              IN  (Parses(t) /\ PassesCountry(rankItem, t) /\ ~t.complete) =>
                      ( InOutput(rankResults[k].infohash) <=>
                          \/ /\ rankItem.number \in Range(t.episodes)
                             /\ rankItem.parent.number \in Range(t.seasons)
                          \/ /\ Len(ShowOf(rankItem).seasons) = 1
                             /\ t.seasons = <<>>
                             /\ rankItem.number \in Range(t.episodes)
                          \/ IsSeasonPack(rankItem, t) )

(***************************************************************************)
(* C15.  For a Show, Season or Episode item the ranker returns, and every  *)
(* candidate that parses, passes the country filter and is marked complete *)
(* is in the output, whatever seasons and episodes it names.               *)
(***************************************************************************)
C15_CompleteAccepted ==
    (rankOut.called /\ rankItem.type \in Series) =>
        /\ ~rankOut.raised
        /\ \A k \in 1..Len(rankResults) :
              LET t == rankResults[k].raw_title
              IN  (Parses(t) /\ PassesCountry(rankItem, t) /\ t.complete) =>
                      InOutput(rankResults[k].infohash)

(***************************************************************************)
(* C20.  When _parse_results returns, the infohash of every raw result,    *)
(* admitted or rejected, is in processed_infohashes.                       *)
(***************************************************************************)
C20_EveryCandidateProcessed ==
    (rankOut.called /\ ~rankOut.raised) =>
        \A k \in 1..Len(rankResults) :
            rankResults[k].infohash \in rankOut.processed_infohashes

(***************************************************************************)
(* C21.  For a Show item the ranker returns, and a candidate that parses,  *)
(* passes the country filter and is not marked complete is in the output   *)
(* exactly when it declares at least one season, declares no episodes, and *)
(* declares at least (number of needed seasons - 1) seasons, the needed    *)
(* seasons being the show's seasons that are not Completed.                *)
(***************************************************************************)
C21_ShowAdmissibility ==
    (rankOut.called /\ rankItem.type = "show") =>
        /\ ~rankOut.raised
        /\ \A k \in 1..Len(rankResults) :
              LET t == rankResults[k].raw_title
              IN  (Parses(t) /\ PassesCountry(rankItem, t) /\ ~t.complete) =>
                      ( InOutput(rankResults[k].infohash) <=>
                          /\ t.seasons # <<>>
                          /\ t.episodes = <<>>
                          /\ Len(t.seasons) >= Cardinality(NeededSeasons(rankItem)) - 1 )

(***************************************************************************)
(* C22.  A scrape call for a Movie, Season or Episode that returns a       *)
(* response sets the item's scraped_at to the time of the call, and a      *)
(* scrape call is made for an item only when no call for it has returned   *)
(* before (scraped_at = 0) or the last one that did lies more than 30      *)
(* minutes back.                                                           *)
(***************************************************************************)
C22_CooldownBetweenCalls ==
    [][ spc = "scraping" =>
            LET id == Head(cont.queue)
            IN  /\ items[id].type \in {"movie", "season", "episode"}
                /\ lastCall'.item = id
                /\ lastCall'.outcome = "none" => items'[id].scraped_at = clock
                /\ \/ items[id].scraped_at = 0
                   \/ clock - items[id].scraped_at > 60 * 30
      ]_vars

\* the first movie is called a second time, in the pass that follows its first
\* call by 30 minutes and a second
C22_Witness ==
    /\ lastCall = [item |-> "m1", outcome |-> "none", pass |-> 2]
    /\ raisedPass = 0
    /\ clock = StartClock + 60 * 30 + 1
    /\ items["m1"].scraped_at = clock

(***************************************************************************)
(* C23.  Within _scrape_show the calls for the seasons come before the     *)
(* calls for the episodes: a season is not called after an episode in the  *)
(* same pass, and when an episode is called no season of the show is still *)
(* eligible.  An episode is called only if it is eligible itself and its   *)
(* season is not scraped (holds no streams) after the season calls.        *)
(***************************************************************************)
ParentSeason(e) == CHOOSE s \in Range(seasons_of("sh")) : e \in Range(episodes_of(s))

C23_SeasonsBeforeEpisodes ==
    [][ spc = "scraping" =>
            LET id == Head(cont.queue)
            IN  /\ items[id].type = "season" =>
                      ~(lastCall.pass = passNo /\ lastCall.item \in DOMAIN items
                          /\ items[lastCall.item].type = "episode")
                /\ items[id].type = "episode" =>
                      /\ can_we_scrape(items[id], clock)
                      /\ ~is_scraped(items[ParentSeason(id)])
                      /\ \A s \in Range(seasons_of("sh")) :
                             ~can_we_scrape(items[s], clock)
      ]_vars

\* both seasons were called in the second pass; the first got streams, the
\* second none, and only the second season's episode was called after them
C23_Witness ==
    /\ passNo = 2
    /\ lastCall = [item |-> "e2", outcome |-> "none", pass |-> 2]
    /\ is_scraped(items["s1"])
    /\ items["s1"].scraped_at = clock
    /\ items["s2"].scraped_at = clock
    /\ ~is_scraped(items["s2"])
    /\ items["e1"].scraped_at = 0
    /\ items["e2"].scraped_at = clock

====
